---- MODULE Spec2Model ----
(***************************************************************************)
(* Model of scripts/process_docs_hybrid.py: the document intake pipeline   *)
(* (stage -> extract text -> analyse -> rebuild -> rename/move -> set      *)
(* timestamp, with quarantine on failure).                                 *)
(*                                                                         *)
(* Python strings are sequences of one-character strings; a file name is   *)
(* such a sequence too, with the extension kept as one element (".pdf").   *)
(* Extracted text is abstracted to its leading blanks, its trimmed length  *)
(* and its trailing blanks, which is all the code looks at.                *)
(***************************************************************************)
EXTENDS Integers, Sequences, FiniteSets, TLC

\* ------------------------------------------------------------------ bounds
MaxDocs == 2       \* files dropped into the inbox during one run
MaxRespLen == 3    \* tokens in an analysis response

\* ------------------------------------------------------- program constants
MinLocalLen == 20  \* len(text.strip()) > 20

\* ------------------------------------------------------------ sequences
RECURSIVE SeqFilter(_, _)
SeqFilter(s, keep) ==
  IF s = <<>> THEN <<>>
  ELSE IF Head(s) \in keep THEN <<Head(s)>> \o SeqFilter(Tail(s), keep)
       ELSE SeqFilter(Tail(s), keep)

Range(s) == { s[i] : i \in 1..Len(s) }

\* ------------------------------------------------------------ characters
AsciiLetters == {
  "A", "B", "C", "D", "E", "F", "G", "H", "I", "J", "K", "L", "M",
  "N", "O", "P", "Q", "R", "S", "T", "U", "V", "W", "X", "Y", "Z",
  "a", "b", "c", "d", "e", "f", "g", "h", "i", "j", "k", "l", "m",
  "n", "o", "p", "q", "r", "s", "t", "u", "v", "w", "x", "y", "z"}
Digits == {"0", "1", "2", "3", "4", "5", "6", "7", "8", "9"}
AccentedLetters == {"é", "ç"}
Whitespace == {" "}
SafeAscii == AsciiLetters \cup Digits \cup {"_", "-"}

\* str.isalnum(): true for every Unicode letter or digit, accented included
IsAlnum(c) == c \in AsciiLetters \cup Digits \cup AccentedLetters

\* str.rstrip()
RECURSIVE RStrip(_)
RStrip(s) ==
  IF s = <<>> THEN <<>>
  ELSE IF s[Len(s)] \in Whitespace THEN RStrip(SubSeq(s, 1, Len(s) - 1))
       ELSE s

\* str.replace(' ', '_')
SpaceToUnderscore(s) == [i \in 1..Len(s) |-> IF s[i] = " " THEN "_" ELSE s[i]]

\* ------------------------------------------------------------ text
\* A text: lead blanks, trimmed body length, trailing blanks.  None is
\* Python's None where a text is expected.
Text(l, b, t) == [k |-> "text", lead |-> l, body |-> b, trail |-> t]
None == [k |-> "none", lead |-> 0, body |-> 0, trail |-> 0]
\* len(text)
TextLen(t) == t.lead + t.body + t.trail
\* str.strip(); a text without body is all blanks
Strip(t) == Text(0, t.body, 0)
\* Python truthiness of a str or None
TextTruthy(t) == t.k = "text" /\ TextLen(t) > 0

\* ------------------------------------------------- analysis response
\* The analysis service answers free text.  A response is a sequence of
\* tokens: "{" and "}" are the braces (the members of an object, being
\* well formed, are left out), "x" is any other run of characters.
RespTokens == {"{", "}", "x"}

Responses == UNION { [1..n -> RespTokens] : n \in 0..MaxRespLen }

\* str.find('{'): index of the first occurrence (0-based), -1 when absent
Find(r, c) ==
  IF \E i \in 1..Len(r) : r[i] = c
  THEN (CHOOSE i \in 1..Len(r) : r[i] = c /\ \A j \in 1..(i - 1) : r[j] # c) - 1
  ELSE -1

\* str.rfind('}'): index of the last occurrence (0-based), -1 when absent
RFind(r, c) ==
  IF \E i \in 1..Len(r) : r[i] = c
  THEN (CHOOSE i \in 1..Len(r) : r[i] = c /\ \A j \in (i + 1)..Len(r) : r[j] # c) - 1
  ELSE -1

\* r[start:end] with Python's slice rules: a negative index counts from the
\* end, both indexes are clamped to [0, len], an empty range gives "".
PySlice(r, start, end) ==
  LET n == Len(r)
      norm(i) == IF i < 0 THEN (IF n + i < 0 THEN 0 ELSE n + i)
                 ELSE (IF i > n THEN n ELSE i)
      a == norm(start)
      b == norm(end)
  IN IF a >= b THEN <<>> ELSE SubSeq(r, a + 1, b)

\* Variant: the first "}" is taken instead of the last.
CleanResponseFirstBrace(r) == PySlice(r, Find(r, "{"), Find(r, "}") + 1)

\* json_start / json_end / clean_response
CleanResponse(r) == PySlice(r, Find(r, "{"), RFind(r, "}") + 1)

\* json.loads on the token abstraction: the only document that starts with
\* "{" and parses is one object, a brace pair.
JsonLoadsOK(c) == c = <<"{", "}">>

\* get_analysis_from_gemini's outcome on a response text
AnalysisParses(r) ==
  LET clean_response == CleanResponse(r)
  IN clean_response # <<>> /\ JsonLoadsOK(clean_response)

\* ------------------------------------------------- analysis result
\* Values of the parsed JSON object.  A key is absent, null, a string, a
\* list of strings or a mapping with the keys "en" and "fr".
Absent == [k |-> "absent", s |-> <<>>]
Null == [k |-> "null", s |-> <<>>]
Str(s) == [k |-> "str", s |-> s]
List(l) == [k |-> "list", s |-> l]
Scalars(strs) == {Absent, Null} \cup { Str(s) : s \in strs }
Lists(ls) == {Absent, Null} \cup { List(l) : l \in ls }

Plain(v) == [k |-> v.k, s |-> v.s, en |-> Absent, fr |-> Absent]
Map(e, f) == [k |-> "map", s |-> <<>>, en |-> e, fr |-> f]

StrDocument == <<"D", "o", "c", "u", "m", "e", "n", "t">>
StrUnknown == <<"U", "n", "k", "n", "o", "w", "n">>
StrNone == <<"N", "o", "n", "e">>

\* Python truthiness of a JSON value: None, "", [] and {} are falsy
Truthy(v) ==
  CASE v.k \in {"absent", "null"} -> FALSE
    [] v.k \in {"str", "list"} -> v.s # <<>>
    [] v.k = "map" -> v.en.k # "absent" \/ v.fr.k # "absent"

\* metadata.get(key) or default
GetOr(v, default) == IF Truthy(v) THEN v ELSE default

\* mapping.get(key, default): the default only when the key is missing
GetDefault(v, default) == IF v.k = "absent" THEN default ELSE v

\* how an f-string renders a value
Format(v) == IF v.k = "null" THEN StrNone ELSE v.s

\* list(dict.fromkeys(tags)): first occurrences, in order
RECURSIVE Dedup(_)
Dedup(l) ==
  IF l = <<>> THEN <<>>
  ELSE LET init == Dedup(SubSeq(l, 1, Len(l) - 1))
           last == l[Len(l)]
       IN IF last \in Range(init) THEN init ELSE Append(init, last)

\* ", ".join(l); the separator is kept as one element
RECURSIVE Join(_)
Join(l) ==
  IF l = <<>> THEN <<>>
  ELSE IF Len(l) = 1 THEN l
       ELSE <<Head(l), ", ">> \o Join(Tail(l))

\* Variant: doc_type is read with a default instead of "or", and the tag
\* lists are indexed, so a null doc_type prints as None and a missing or
\* null key raises.
PrepareMetadataIndexed(metadata) ==
  LET doc_type_val == GetDefault(metadata.doc_type, Plain(Str(StrDocument)))
      tags_val == GetOr(metadata.tags, Plain(List(<<>>)))
      sender == GetOr(metadata.sender, Str(StrUnknown)).s
      title == IF doc_type_val.k = "map"
               THEN Format(GetDefault(doc_type_val.en, Str(<<>>)))
                    \o <<" ", "/", " ">>
                    \o Format(GetDefault(doc_type_val.fr, Str(<<>>)))
               ELSE Format(doc_type_val)
      raises == tags_val.k = "map"
                /\ (tags_val.en.k # "list" \/ tags_val.fr.k # "list")
      tags == CASE tags_val.k = "map" -> tags_val.en.s \o tags_val.fr.s
                [] tags_val.k = "list" -> tags_val.s
                [] OTHER -> <<>>
  IN IF raises
     THEN [raised |-> TRUE, title |-> <<>>, author |-> <<>>,
           subject |-> <<>>, keywords |-> <<>>]
     ELSE [raised |-> FALSE, title |-> title, author |-> sender,
           subject |-> sender \o <<" ", "-", " ">> \o title,
           keywords |-> Join(Dedup(tags))]

\* build_final_pdf, "Prepare metadata strings": the four strings handed to
\* the rebuilder, or raised when list.extend is given None
PrepareMetadata(metadata) ==
  LET doc_type_val == GetOr(metadata.doc_type, Plain(Str(StrDocument)))
      tags_val == GetOr(metadata.tags, Plain(List(<<>>)))
      sender == GetOr(metadata.sender, Str(StrUnknown)).s
      title == IF doc_type_val.k = "map"
               THEN Format(GetDefault(doc_type_val.en, Str(<<>>)))
                    \o <<" ", "/", " ">>
                    \o Format(GetDefault(doc_type_val.fr, Str(<<>>)))
               ELSE doc_type_val.s
      subject == sender \o <<" ", "-", " ">> \o title
      en == GetDefault(tags_val.en, List(<<>>))
      fr == GetDefault(tags_val.fr, List(<<>>))
      raises == tags_val.k = "map" /\ (en.k = "null" \/ fr.k = "null")
      tags == CASE tags_val.k = "map" -> en.s \o fr.s
                [] tags_val.k = "list" -> tags_val.s
                [] OTHER -> <<>>
  IN IF raises
     THEN [raised |-> TRUE, title |-> <<>>, author |-> <<>>,
           subject |-> <<>>, keywords |-> <<>>]
     ELSE [raised |-> FALSE, title |-> title, author |-> sender,
           subject |-> subject, keywords |-> Join(Dedup(tags))]

\* ------------------------------------------------- file name and date
\* Variant: the language test is inverted.
DocTypeSwapped(analysis_data, language) ==
  LET doc_type_val == GetOr(analysis_data.doc_type, Plain(Str(StrDocument)))
  IN IF language # "english"
     THEN IF doc_type_val.k # "map" THEN Str(doc_type_val.s)
          ELSE GetDefault(doc_type_val.en, Str(StrDocument))
     ELSE IF doc_type_val.k = "map"
          THEN GetDefault(doc_type_val.fr, Str(StrDocument))
          ELSE Str(doc_type_val.s)

\* process_pdf, "FILENAME & DATE LOGIC": the document type for the file
\* name, a string value or None (a mapping whose key holds null)
DocTypeForFilename(analysis_data, language) ==
  LET doc_type_val == GetOr(analysis_data.doc_type, Plain(Str(StrDocument)))
  IN IF language = "english"
     THEN IF doc_type_val.k # "map" THEN Str(doc_type_val.s)
          ELSE GetDefault(doc_type_val.en, Str(StrDocument))
     ELSE IF doc_type_val.k = "map"
          THEN GetDefault(doc_type_val.fr, Str(StrDocument))
          ELSE Str(doc_type_val.s)

\* (analysis_data.get('sender') or 'Unknown').replace(' ', '_')
SenderForFilename(analysis_data) ==
  SpaceToUnderscore(GetOr(analysis_data.sender, Str(StrUnknown)).s)

\* "".join(c for c in s if c.isalnum() or c in ('_','-')).rstrip()
Sanitize(s) ==
  RStrip(SeqFilter(s, { c \in Range(s) : IsAlnum(c) \/ c \in {"_", "-"} }))

\* doc_date for the file name: the analyser's, or today's when falsy
DateForFilename(analysis_data, today) ==
  IF Truthy(analysis_data.doc_date) THEN analysis_data.doc_date.s ELSE today

BaseFilename(analysis_data, language, today) ==
  DateForFilename(analysis_data, today) \o <<"_">>
    \o Sanitize(SenderForFilename(analysis_data)) \o <<"_">>
    \o Sanitize(DocTypeForFilename(analysis_data, language).s)

\* str(counter)
RECURSIVE IntToStr(_)
IntToStr(n) ==
  LET d == <<"0", "1", "2", "3", "4", "5", "6", "7", "8", "9">>
  IN IF n < 10 THEN <<d[n + 1]>> ELSE IntToStr(n \div 10) \o <<d[(n % 10) + 1]>>

\* f"{base_filename}.pdf" and f"{base_filename}-{counter}.pdf"
PdfName(base) == base \o <<".pdf">>
CounterName(base, n) == base \o <<"-">> \o IntToStr(n) \o <<".pdf">>

\* value of a string of decimal digits
RECURSIVE DigitsValue(_)
DigitsValue(s) ==
  IF s = <<>> THEN 0
  ELSE 10 * DigitsValue(SubSeq(s, 1, Len(s) - 1))
       + (CHOOSE v \in 0..9 : IntToStr(v) = <<s[Len(s)]>>)

IsDigits(s) == s # <<>> /\ Range(s) \subseteq Digits

DaysInMonth(y, m) ==
  IF m = 2
  THEN (IF (y % 4 = 0 /\ y % 100 # 0) \/ y % 400 = 0 THEN 29 ELSE 28)
  ELSE IF m \in {4, 6, 9, 11} THEN 30 ELSE 31

\* datetime.strptime(s, '%Y-%m-%d'): the dates s can be read as (at most
\* one); %Y takes four digits, %m and %d one or two, and the day must
\* exist.  Empty when strptime raises ValueError.
StrptimeShape(s, ml, dl) ==
  /\ Len(s) = 6 + ml + dl
  /\ IsDigits(SubSeq(s, 1, 4))
  /\ s[5] = "-"
  /\ IsDigits(SubSeq(s, 6, 5 + ml))
  /\ s[6 + ml] = "-"
  /\ IsDigits(SubSeq(s, 7 + ml, 6 + ml + dl))

Strptime(s) ==
  LET shapes == { p \in {1, 2} \X {1, 2} : StrptimeShape(s, p[1], p[2]) }
      read == { << DigitsValue(SubSeq(s, 1, 4)),
                   DigitsValue(SubSeq(s, 6, 5 + p[1])),
                   DigitsValue(SubSeq(s, 7 + p[1], 6 + p[1] + p[2])) >> :
                p \in shapes }
  IN { d \in read : /\ d[1] >= 1
                    /\ d[2] \in 1..12
                    /\ d[3] \in 1..DaysInMonth(d[1], d[2]) }

\* ------------------------------------------------------------ folders
\* A folder is a function from the names of its files to their contents.
\* A content: the document it came from (id), what it is (the dropped pdf,
\* the rebuilt pdf, a sidecar text, a directory) and its modification
\* time: <<>> while the filesystem's own, <<y, m, d>> once set by os.utime.
File(id, kind) == [id |-> id, kind |-> kind, mtime |-> <<>>]
EmptyFolder == [n \in {} |-> File(0, "pdf")]
Put(folder, name, content) ==
  [n \in DOMAIN folder \cup {name} |-> IF n = name THEN content ELSE folder[n]]
Remove(folder, name) == [n \in DOMAIN folder \ {name} |-> folder[n]]
\* os.path.exists
Exists(folder, name) == name \in DOMAIN folder

\* str.lower() on a file name; the extension is one element
Lower(name) == [i \in 1..Len(name) |-> IF name[i] = ".PDF" THEN ".pdf" ELSE name[i]]
\* str.endswith('.pdf')
EndsWithPdf(name) == name # <<>> /\ name[Len(name)] = ".pdf"

\* f"{pdf_filename}.txt" and f"processed_{pdf_filename}"
SidecarName(pdf_filename) == pdf_filename \o <<".txt">>
OutputName(pdf_filename) == <<"processed_">> \o pdf_filename

\* ------------------------------------------------------------ inputs
StrAcmeCorp == <<"A", "c", "m", "e", " ", "C", "o", "r", "p">>
StrInvoice == <<"I", "n", "v", "o", "i", "c", "e">>
StrRecu == <<"R", "e", "ç", "u">>
DateIso == <<"2", "0", "2", "4", "-", "0", "3", "-", "0", "1">>
DateWords == <<"M", "a", "r", " ", "1">>
DateSlash == <<"1", "/", "3">>

\* OUTPUT_LANGUAGE
Languages == {"english", "french", "both"}

\* datetime.now().strftime('%Y-%m-%d')
ClockDates == { <<"2", "0", "2", "4", "-", "0", "3", "-", "0", "2">> }

\* what pdftotext can give: a failure, or a text
LocalOutcomes ==
  { [ok |-> FALSE, text |-> None] }
    \cup { [ok |-> TRUE, text |-> t] :
           t \in { Text(0, 0, 0), Text(1, MinLocalLen, 1), Text(1, MinLocalLen + 1, 1) } }

\* what the OCR service can give: a failure, or a text
OcrOutcomes ==
  { [ok |-> FALSE, text |-> None] }
    \cup { [ok |-> TRUE, text |-> t] :
           t \in { Text(0, 0, 0), Text(2, 0, 0), Text(1, 1, 1) } }

Analysis(date, sender, doc_type, tags) ==
  [doc_date |-> date, sender |-> sender, doc_type |-> doc_type, tags |-> tags]
NoAnalysis == Analysis(Absent, Absent, Plain(Absent), Plain(Absent))
TagsEn == <<"billing", "q1">>
TagsFr == <<"q1", "facturation">>

\* the JSON objects the analysis service answers with in the pipeline runs
AnalysisInputs ==
  { Analysis(Str(DateIso), Str(StrAcmeCorp), Plain(Str(StrInvoice)), Plain(List(TagsEn))),
    Analysis(Str(DateIso), Str(StrAcmeCorp), Map(Str(StrInvoice), Str(StrRecu)),
             Map(List(TagsEn), List(TagsFr))),
    NoAnalysis,
    Analysis(Str(DateWords), Null, Plain(Null), Plain(Null)),
    Analysis(Str(DateSlash), Str(StrAcmeCorp), Plain(Str(StrInvoice)), Plain(List(TagsEn))),
    Analysis(Str(DateIso), Str(StrAcmeCorp), Map(Null, Str(StrRecu)), Plain(List(TagsFr))),
    Analysis(Str(DateIso), Str(StrAcmeCorp), Plain(Str(StrInvoice)), Map(Null, List(TagsFr))) }

\* creation events the watcher can deliver: files and directories
Arrivals ==
  { [name |-> <<"a", ".pdf">>, is_directory |-> FALSE],
    [name |-> <<"b", ".PDF">>, is_directory |-> FALSE],
    [name |-> <<"n", ".txt">>, is_directory |-> FALSE],
    [name |-> <<"d", ".pdf">>, is_directory |-> TRUE] }

\* what the processed folder can hold when the program starts
ExampleBase == DateIso \o <<"_">> \o <<"A", "c", "m", "e", "_", "C", "o", "r", "p">> \o <<"_">> \o StrInvoice
Earlier(names) == [n \in names |-> File(0, "rebuilt")]
InitialProcessed ==
  { EmptyFolder,
    Earlier({PdfName(ExampleBase), CounterName(ExampleBase, 2)}) }

\* ------------------------------------------------------------ state
VARIABLES
  lang,           \* OUTPUT_LANGUAGE
  inbox,          \* INBOX_FOLDER
  working,        \* WORKING_DIR
  processed,      \* PROCESSED_FOLDER
  errorf,         \* ERROR_FOLDER
  events,         \* creation events the observer has not dispatched yet
  arrived,        \* number of events delivered so far
  pc,             \* where the handler thread is
  filename,       \* process_pdf: filename
  full_text,      \* process_pdf: full_text
  analysis_data,  \* process_pdf: analysis_data
  base_filename,  \* process_pdf: base_filename
  new_filename,   \* process_pdf: new_filename
  counter,        \* process_pdf: counter
  command,        \* build_final_pdf: the metadata strings of the command
  hist            \* what happened to the document in hand (observation)

vars == <<lang, inbox, working, processed, errorf, events, arrived, pc,
          filename, full_text, analysis_data, base_filename, new_filename,
          counter, command, hist>>

locals == <<filename, full_text, analysis_data, base_filename, new_filename,
            counter, command>>
folders == <<inbox, working, processed, errorf>>

NoCommand == [raised |-> FALSE, title |-> <<>>, author |-> <<>>,
              subject |-> <<>>, keywords |-> <<>>]

\* The observation of one document: its name and id, what local
\* extraction and OCR gave, the calls made, the text sent to analysis,
\* whether the analysis response was malformed, the stages entered in
\* order, the stage that raised, and the final path in the processed
\* folder.
NoHist == [name |-> <<>>, id |-> 0, local |-> [ok |-> FALSE, text |-> None],
           local_calls |-> 0, ocr_calls |-> 0, ocr_text |-> None,
           an_calls |-> 0, an_text |-> None, malformed |-> FALSE,
           stages |-> <<>>, failed |-> "", filed |-> <<>>]

\* The response holds a "{" before a "}" and the text from the first "{"
\* to the last "}" is a JSON document.
WellFormedResponse(r) ==
  \E i, j \in 1..Len(r) :
    /\ i < j
    /\ r[i] = "{" /\ \A h \in 1..(i - 1) : r[h] # "{"
    /\ r[j] = "}" /\ \A h \in (j + 1)..Len(r) : r[h] # "}"
    /\ JsonLoadsOK(SubSeq(r, i, j))

Enter(stage) == [hist EXCEPT !.stages = Append(@, stage)]
Raise(h, stage) == [h EXCEPT !.failed = stage]

Init ==
  /\ lang \in Languages
  /\ inbox = EmptyFolder
  /\ working = EmptyFolder
  /\ processed \in InitialProcessed
  /\ errorf = EmptyFolder
  /\ events = <<>>
  /\ arrived = 0
  /\ pc = "idle"
  /\ filename = <<>>
  /\ full_text = None
  /\ analysis_data = NoAnalysis
  /\ base_filename = <<>>
  /\ new_filename = <<>>
  /\ counter = 0
  /\ command = NoCommand
  /\ hist = NoHist

\* ------------------------------------------------------------ environment
\* A file or a directory appears in the inbox and the observer queues its
\* creation event.
Arrive ==
  /\ arrived < MaxDocs
  /\ \E a \in Arrivals :
       /\ ~Exists(inbox, a.name)
       /\ inbox' = Put(inbox, a.name,
                       File(arrived + 1, IF a.is_directory THEN "dir" ELSE "pdf"))
       /\ events' = Append(events, [name |-> a.name, is_directory |-> a.is_directory])
  /\ arrived' = arrived + 1
  /\ UNCHANGED <<lang, working, processed, errorf, pc, locals, hist>>

\* Somebody takes a file out of the inbox again.
Vanish ==
  /\ \E n \in DOMAIN inbox : inbox' = Remove(inbox, n)
  /\ UNCHANGED <<lang, working, processed, errorf, events, arrived, pc, locals, hist>>

\* ------------------------------------------------------------ handler
\* Variant: directories are not told from files.
OnCreatedAnyPath ==
  /\ pc = "idle"
  /\ events # <<>>
  /\ LET event == Head(events)
     IN IF EndsWithPdf(Lower(event.name))
        THEN /\ pc' = "stage"
             /\ filename' = event.name
             /\ hist' = [NoHist EXCEPT !.name = event.name]
        ELSE /\ UNCHANGED <<pc, filename, hist>>
  /\ events' = Tail(events)
  /\ UNCHANGED <<lang, folders, arrived, full_text, analysis_data,
                 base_filename, new_filename, counter, command>>

\* PDFHandler.on_created: the observer thread takes the next event; a pdf
\* file is slept on and then processed, anything else is dropped.
OnCreated ==
  /\ pc = "idle"
  /\ events # <<>>
  /\ LET event == Head(events)
     IN IF ~event.is_directory /\ EndsWithPdf(Lower(event.name))
        THEN /\ pc' = "stage"
             /\ filename' = event.name
             /\ hist' = [NoHist EXCEPT !.name = event.name]
        ELSE /\ UNCHANGED <<pc, filename, hist>>
  /\ events' = Tail(events)
  /\ UNCHANGED <<lang, folders, arrived, full_text, analysis_data,
                 base_filename, new_filename, counter, command>>

\* process_pdf: shutil.move(pdf_path_in_inbox, working_path)
Stage ==
  /\ pc = "stage"
  /\ IF Exists(inbox, filename) /\ inbox[filename].kind # "dir"
     THEN /\ working' = Put(working, filename, inbox[filename])
          /\ inbox' = Remove(inbox, filename)
          /\ hist' = [Enter("stage") EXCEPT !.id = inbox[filename].id]
          /\ pc' = "extract"
     ELSE /\ hist' = Raise(Enter("stage"), "stage")
          /\ pc' = "except"
          /\ UNCHANGED <<inbox, working>>
  /\ UNCHANGED <<lang, processed, errorf, events, arrived, locals>>

\* Variant: the threshold is one too high.
ExtractOffByOne(outcome) ==
  IF outcome.ok /\ TextTruthy(outcome.text)
                /\ TextLen(Strip(outcome.text)) > MinLocalLen + 1
  THEN outcome.text
  ELSE None

\* extract_text_with_pdftotext: the text when its trimmed length is above
\* the minimum, None otherwise and on any failure of the tool
ExtractTextWithPdftotext(outcome) ==
  IF outcome.ok /\ TextTruthy(outcome.text)
                /\ TextLen(Strip(outcome.text)) > MinLocalLen
  THEN outcome.text
  ELSE None

\* process_pdf: full_text = extract_text_with_pdftotext(working_path)
Extract ==
  /\ pc = "extract"
  /\ \E outcome \in LocalOutcomes :
       /\ full_text' = ExtractTextWithPdftotext(outcome)
       /\ hist' = [Enter("extract") EXCEPT !.local = outcome,
                                           !.local_calls = @ + 1]
  /\ pc' = IF full_text'.k = "none" THEN "ocr" ELSE "check"
  /\ UNCHANGED <<lang, folders, events, arrived, filename, analysis_data,
                 base_filename, new_filename, counter, command>>

\* process_pdf: full_text = get_text_from_gemini(working_path)
RemoteOcr ==
  /\ pc = "ocr"
  /\ \E outcome \in OcrOutcomes :
       IF outcome.ok
       THEN /\ full_text' = outcome.text
            /\ hist' = [Enter("ocr") EXCEPT !.ocr_calls = @ + 1,
                                            !.ocr_text = outcome.text]
            /\ pc' = "check"
       ELSE /\ hist' = Raise([Enter("ocr") EXCEPT !.ocr_calls = @ + 1], "ocr")
            /\ pc' = "except"
            /\ UNCHANGED full_text
  /\ UNCHANGED <<lang, folders, events, arrived, filename, analysis_data,
                 base_filename, new_filename, counter, command>>

\* Variant: the minimum length of local extraction is asked of any text.
EmptyTextMinLength(text) ==
  ~TextTruthy(text) \/ TextLen(Strip(text)) <= MinLocalLen

\* Variant: the text is not stripped before it is tested.
EmptyTextNoStrip(text) == ~TextTruthy(text)

\* process_pdf: if not full_text or not full_text.strip(): raise ValueError
EmptyText(text) == ~TextTruthy(text) \/ ~TextTruthy(Strip(text))

CheckText ==
  /\ pc = "check"
  /\ IF EmptyText(full_text)
     THEN /\ hist' = Raise(hist, "check")
          /\ pc' = "except"
     ELSE /\ pc' = "analyze"
          /\ UNCHANGED hist
  /\ UNCHANGED <<lang, folders, events, arrived, locals>>

\* get_analysis_from_gemini: the service is called with the text; it fails,
\* or its answer is cut to the JSON object and parsed
Analyze ==
  /\ pc = "analyze"
  /\ LET called == [Enter("analyze") EXCEPT !.an_calls = @ + 1,
                                            !.an_text = full_text]
     IN \/ /\ hist' = Raise(called, "analyze")
           /\ pc' = "except"
           /\ UNCHANGED analysis_data
        \/ \E r \in Responses :
             LET seen == [called EXCEPT !.malformed = ~WellFormedResponse(r)]
             IN IF AnalysisParses(r)
                THEN /\ \E data \in AnalysisInputs : analysis_data' = data
                     /\ hist' = seen
                     /\ pc' = "rebuild"
                ELSE /\ hist' = Raise(seen, "analyze")
                     /\ pc' = "except"
                     /\ UNCHANGED analysis_data
  /\ UNCHANGED <<lang, folders, events, arrived, filename, full_text,
                 base_filename, new_filename, counter, command>>

\* Variant: no sidecar is written.
WriteNoSidecar(dir, pdf_filename) == dir

\* build_final_pdf, from the sidecar on: the working directory after the
\* sidecar is written and the rebuilder has run (ok) or failed
WriteSidecar(dir, pdf_filename) ==
  Put(dir, SidecarName(pdf_filename), File(dir[pdf_filename].id, "sidecar"))

RebuilderOutput(dir, pdf_filename) ==
  Put(dir, OutputName(pdf_filename), File(dir[pdf_filename].id, "rebuilt"))

\* Variant: the sidecar is not removed.
ReplaceKeepsSidecar(dir, pdf_filename) ==
  LET no_original == Remove(dir, pdf_filename)
  IN Put(Remove(no_original, OutputName(pdf_filename)), pdf_filename,
         no_original[OutputName(pdf_filename)])

\* os.remove(sidecar); os.remove(working_pdf_path); shutil.move(output, working_pdf_path)
ReplaceWorkingFile(dir, pdf_filename) ==
  LET no_sidecar == Remove(dir, SidecarName(pdf_filename))
      no_original == Remove(no_sidecar, pdf_filename)
  IN Put(Remove(no_original, OutputName(pdf_filename)), pdf_filename,
         no_original[OutputName(pdf_filename)])

\* Variant: a failure of the rebuilder is logged and the run goes on.
RebuildGoesOn ==
  /\ pc = "rebuild"
  /\ LET metadata == PrepareMetadata(analysis_data)
         with_sidecar == WriteSidecar(working, filename)
     IN IF metadata.raised
        THEN /\ hist' = Raise(Enter("rebuild"), "rebuild")
             /\ pc' = "except"
             /\ UNCHANGED <<working, command>>
        ELSE /\ command' = metadata
             /\ \/ /\ working' = ReplaceWorkingFile(
                                   RebuilderOutput(with_sidecar, filename), filename)
                   /\ hist' = Enter("rebuild")
                   /\ pc' = "resolve"
                \/ /\ working' = with_sidecar
                   /\ hist' = Raise(Enter("rebuild"), "rebuild")
                   /\ pc' = "resolve"
  /\ UNCHANGED <<lang, inbox, processed, errorf, events, arrived, filename,
                 full_text, analysis_data, base_filename, new_filename, counter>>

\* process_pdf: build_final_pdf(working_path, full_text, analysis_data)
Rebuild ==
  /\ pc = "rebuild"
  /\ LET metadata == PrepareMetadata(analysis_data)
         with_sidecar == WriteSidecar(working, filename)
     IN IF metadata.raised
        THEN /\ hist' = Raise(Enter("rebuild"), "rebuild")
             /\ pc' = "except"
             /\ UNCHANGED <<working, command>>
        ELSE /\ command' = metadata
             /\ \/ /\ working' = ReplaceWorkingFile(
                                   RebuilderOutput(with_sidecar, filename), filename)
                   /\ hist' = Enter("rebuild")
                   /\ pc' = "resolve"
                \/ /\ working' = with_sidecar
                   /\ hist' = Raise(Enter("rebuild"), "rebuild")
                   /\ pc' = "except"
  /\ UNCHANGED <<lang, inbox, processed, errorf, events, arrived, filename,
                 full_text, analysis_data, base_filename, new_filename, counter>>

\* process_pdf, "FILENAME & DATE LOGIC": iterating over a None document
\* type raises TypeError; otherwise the first candidate name is set up
Resolve ==
  /\ pc = "resolve"
  /\ IF DocTypeForFilename(analysis_data, lang).k = "null"
     THEN /\ hist' = Raise(Enter("resolve"), "resolve")
          /\ pc' = "except"
          /\ UNCHANGED <<base_filename, new_filename, counter>>
     ELSE /\ \E today \in ClockDates :
               base_filename' = BaseFilename(analysis_data, lang, today)
          /\ new_filename' = PdfName(base_filename')
          /\ counter' = 1
          /\ hist' = Enter("resolve")
          /\ pc' = "probe"
  /\ UNCHANGED <<lang, folders, events, arrived, filename, full_text,
                 analysis_data, command>>

\* Variant: the counter is incremented before it is used.
ProbeCounterFirst ==
  /\ pc = "probe"
  /\ Exists(processed, new_filename)
  /\ new_filename' = CounterName(base_filename, counter + 1)
  /\ counter' = counter + 1
  /\ UNCHANGED <<lang, folders, events, arrived, pc, filename, full_text,
                 analysis_data, base_filename, command, hist>>

\* process_pdf, "Filename Collision Check": one turn of the while loop
Probe ==
  /\ pc = "probe"
  /\ Exists(processed, new_filename)
  /\ new_filename' = CounterName(base_filename, counter)
  /\ counter' = counter + 1
  /\ UNCHANGED <<lang, folders, events, arrived, pc, filename, full_text,
                 analysis_data, base_filename, command, hist>>

\* Variant: the file is moved without the collision check.
MoveWithoutProbe ==
  /\ pc = "probe"
  /\ processed' = Put(processed, new_filename, working[filename])
  /\ working' = Remove(working, filename)
  /\ hist' = [Enter("move") EXCEPT !.filed = new_filename]
  /\ pc' = "utime"
  /\ UNCHANGED <<lang, inbox, errorf, events, arrived, locals>>

\* Variant: the file is copied to its final path and left behind.
MoveCopies ==
  /\ pc = "probe"
  /\ ~Exists(processed, new_filename)
  /\ IF "/" \in Range(new_filename)
     THEN /\ hist' = Raise(Enter("move"), "move")
          /\ pc' = "except"
          /\ UNCHANGED <<working, processed>>
     ELSE /\ processed' = Put(processed, new_filename, working[filename])
          /\ hist' = [Enter("move") EXCEPT !.filed = new_filename]
          /\ pc' = "utime"
          /\ UNCHANGED working
  /\ UNCHANGED <<lang, inbox, errorf, events, arrived, locals>>

\* process_pdf: shutil.move(working_path, final_path), once the loop has
\* found a free path; a path that leads into a missing directory raises
Move ==
  /\ pc = "probe"
  /\ ~Exists(processed, new_filename)
  /\ IF "/" \in Range(new_filename)
     THEN /\ hist' = Raise(Enter("move"), "move")
          /\ pc' = "except"
          /\ UNCHANGED <<working, processed>>
     ELSE /\ processed' = Put(processed, new_filename, working[filename])
          /\ working' = Remove(working, filename)
          /\ hist' = [Enter("move") EXCEPT !.filed = new_filename]
          /\ pc' = "utime"
  /\ UNCHANGED <<lang, inbox, errorf, events, arrived, locals>>

Forget ==
  /\ filename' = <<>>
  /\ full_text' = None
  /\ analysis_data' = NoAnalysis
  /\ base_filename' = <<>>
  /\ new_filename' = <<>>
  /\ counter' = 0
  /\ command' = NoCommand

\* Variant: the timestamp is read from the date of the file name, which is
\* today's when the analyser gave none.
SetTimestampFromName ==
  /\ pc = "utime"
  /\ LET dates == UNION { Strptime(DateForFilename(analysis_data, today)) :
                             today \in ClockDates }
     IN IF dates = {}
        THEN /\ pc' = "idle"
             /\ Forget
             /\ UNCHANGED <<processed, hist>>
        ELSE \/ /\ \E dt_object \in dates :
                     processed' = [processed EXCEPT ![new_filename].mtime = dt_object]
                /\ hist' = Enter("utime")
                /\ pc' = "idle"
                /\ Forget
             \/ /\ hist' = Raise(Enter("utime"), "utime")
                /\ pc' = "except"
                /\ UNCHANGED <<processed, locals>>
  /\ UNCHANGED <<lang, inbox, working, errorf, events, arrived>>

\* process_pdf: the modification time is set when the raw doc_date is
\* truthy and strptime reads it; ValueError is warned about and dropped,
\* an OSError of os.utime is not
SetTimestamp ==
  /\ pc = "utime"
  /\ LET doc_date_str == analysis_data.doc_date
         dates == IF Truthy(doc_date_str) THEN Strptime(doc_date_str.s) ELSE {}
     IN IF dates = {}
        THEN /\ pc' = "idle"
             /\ Forget
             /\ UNCHANGED <<processed, hist>>
        ELSE \/ /\ \E dt_object \in dates :
                     processed' = [processed EXCEPT ![new_filename].mtime = dt_object]
                /\ hist' = Enter("utime")
                /\ pc' = "idle"
                /\ Forget
             \/ /\ hist' = Raise(Enter("utime"), "utime")
                /\ pc' = "except"
                /\ UNCHANGED <<processed, locals>>
  /\ UNCHANGED <<lang, inbox, working, errorf, events, arrived>>

\* Variant: a failure with no working file leaves a marker in the error
\* folder.
ExceptAlwaysFiles ==
  /\ pc = "except"
  /\ IF Exists(working, filename)
     THEN /\ errorf' = Put(errorf, filename, working[filename])
          /\ working' = Remove(working, filename)
     ELSE /\ errorf' = Put(errorf, filename, File(hist.id, "pdf"))
          /\ UNCHANGED working
  /\ pc' = "idle"
  /\ Forget
  /\ UNCHANGED <<lang, inbox, processed, events, arrived, hist>>

\* Variant: the failure is logged and the working file is left behind.
ExceptLeavesFile ==
  /\ pc = "except"
  /\ pc' = "idle"
  /\ Forget
  /\ UNCHANGED <<lang, folders, events, arrived, hist>>

\* process_pdf, except Exception: the working file, when there is one,
\* goes to the error folder under the name it had in the inbox
Except ==
  /\ pc = "except"
  /\ IF Exists(working, filename)
     THEN /\ errorf' = Put(errorf, filename, working[filename])
          /\ working' = Remove(working, filename)
     ELSE UNCHANGED <<working, errorf>>
  /\ pc' = "idle"
  /\ Forget
  /\ UNCHANGED <<lang, inbox, processed, events, arrived, hist>>

Next ==
  \/ Arrive
  \/ Vanish
  \/ OnCreated
  \/ Stage
  \/ Extract
  \/ RemoteOcr
  \/ CheckText
  \/ Analyze
  \/ Rebuild
  \/ Resolve
  \/ Probe
  \/ Move
  \/ SetTimestamp
  \/ Except

Spec == Init /\ [][Next]_vars

\* ------------------------------------------- the normaliser on its own
\* The metadata preparation of build_final_pdf is a function of the
\* analysis result alone: it is applied to every shape of doc_type, tags
\* and sender, keys holding null included.
DocTypeShapes ==
  { Plain(v) : v \in Scalars({StrInvoice}) }
    \cup { Map(e, f) : e \in Scalars({StrInvoice}), f \in Scalars({StrRecu}) }
TagsShapes ==
  { Plain(v) : v \in Lists({TagsEn}) }
    \cup { Map(e, f) : e \in Lists({TagsEn}), f \in Lists({TagsFr}) }
MetadataInputs ==
  { Analysis(Absent, sender, doc_type, tags) :
      sender \in Scalars({StrAcmeCorp}), doc_type \in DocTypeShapes,
      tags \in TagsShapes }

InitNorm ==
  /\ lang \in Languages
  /\ inbox = EmptyFolder
  /\ working = EmptyFolder
  /\ processed = EmptyFolder
  /\ errorf = EmptyFolder
  /\ events = <<>>
  /\ arrived = 0
  /\ pc = "normalize"
  /\ filename = <<>>
  /\ full_text = None
  /\ analysis_data \in MetadataInputs
  /\ base_filename = <<>>
  /\ new_filename = <<>>
  /\ counter = 0
  /\ command = NoCommand
  /\ hist = NoHist

Normalize ==
  /\ pc = "normalize"
  /\ command' = PrepareMetadata(analysis_data)
  /\ pc' = "normalized"
  /\ UNCHANGED <<lang, folders, events, arrived, filename, full_text,
                 analysis_data, base_filename, new_filename, counter, hist>>

NextNorm == Normalize

SpecNorm == InitNorm /\ [][NextNorm]_vars

\* ================================================================ claims
\* Local extraction has run for the document in hand and gave a text whose
\* trimmed length is above 20.
LocalSufficient ==
  hist.local_calls > 0 /\ hist.local.ok /\ hist.local.text.body > 20
\* Local extraction has run and failed, or gave an empty text or one whose
\* trimmed length is at most 20.
LocalInsufficient ==
  hist.local_calls > 0 /\ (~hist.local.ok \/ hist.local.text.body <= 20)
\* The document in hand rests in the error folder and nowhere else.
Quarantined ==
  /\ Exists(errorf, hist.name)
  /\ errorf[hist.name].id = hist.id
  /\ ~Exists(working, hist.name)
  /\ hist.filed = <<>>
  /\ \A n \in DOMAIN processed : processed[n].id # hist.id
InStages(stage) == stage \in Range(hist.stages)

\* C1: when local extraction gives a text of trimmed length above 20, the
\* remote OCR service is never invoked for that document.
C1_NoOcrAfterLocalText ==
  LocalSufficient => (hist.ocr_calls = 0 /\ pc # "ocr" /\ ~InStages("ocr"))

C1_Witness ==
  LocalSufficient /\ pc = "idle" /\ hist.filed # <<>> /\ hist.ocr_calls = 0

\* C2: when local extraction fails or gives an empty or at most 20
\* character text, remote OCR is invoked exactly once, the local failure
\* raises nothing, the OCR text is the document text as it came, and any
\* text that is not blank is accepted whatever its length.
C2_FallbackOnceVerbatim ==
  LocalInsufficient =>
    /\ hist.ocr_calls = (IF pc = "ocr" THEN 0 ELSE 1)
    /\ hist.failed # "extract"
    /\ (pc # "ocr" /\ hist.failed # "ocr") =>
         /\ hist.ocr_text.k = "text"
         /\ pc \in {"check", "analyze", "rebuild", "resolve", "probe", "utime"}
              => full_text = hist.ocr_text
         /\ hist.an_calls > 0 => hist.an_text = hist.ocr_text
         /\ hist.ocr_text.body > 0 => hist.failed # "check"

C2_Witness ==
  /\ LocalInsufficient /\ ~hist.local.ok
  /\ hist.ocr_calls = 1 /\ hist.ocr_text = Text(1, 1, 1)
  /\ hist.an_calls = 1 /\ hist.an_text = Text(1, 1, 1)
  /\ hist.filed # <<>>

\* C3: when remote OCR, analysis or rebuild raises, the staged file is at
\* its working path when the failure is handled, it is moved to the error
\* folder under the name it had in the inbox, and the processed folder
\* receives nothing for the document.
C3_FailureQuarantines ==
  hist.failed \in {"ocr", "analyze", "rebuild"} =>
    /\ pc \in {"except", "idle"}
    /\ pc = "except" =>
         /\ Exists(working, filename) /\ working[filename].id = hist.id
         /\ filename = hist.name
         /\ \A n \in DOMAIN processed : processed[n].id # hist.id
    /\ pc = "idle" => Quarantined

C3_Witness ==
  /\ hist.failed = "rebuild" /\ pc = "idle" /\ Quarantined
  /\ hist.name = <<"b", ".PDF">>

\* C4: an analysis response without a "{" ... "}" pair, or whose text from
\* the first "{" to the last "}" is not JSON, makes the analyser fail: no
\* rebuild and no filing step runs and the document ends in the error
\* folder.
C4_MalformedResponseQuarantines ==
  hist.malformed =>
    /\ hist.failed = "analyze"
    /\ pc \in {"except", "idle"}
    /\ ~InStages("rebuild") /\ ~InStages("resolve") /\ ~InStages("move")
    /\ pc = "idle" => Quarantined

C4_Witness == hist.malformed /\ pc = "idle" /\ Quarantined

\* C5: when local extraction asks for the fallback and remote OCR gives an
\* empty or blank text, extraction fails, the analysis service is never
\* called and the document is quarantined.
C5_BlankOcrQuarantines ==
  (hist.ocr_calls > 0 /\ hist.ocr_text.k = "text" /\ hist.ocr_text.body = 0
     /\ pc # "check") =>
    /\ hist.failed = "check"
    /\ hist.an_calls = 0 /\ ~InStages("analyze")
    /\ pc \in {"except", "idle"}
    /\ pc = "idle" => Quarantined

C5_Witness ==
  /\ hist.ocr_text = Text(2, 0, 0) /\ hist.failed = "check"
  /\ pc = "idle" /\ Quarantined

\* The first free name for base in a folder: base.pdf when free, otherwise
\* base-N.pdf for the least N >= 1 that is free.
FirstFree(folder, base) ==
  IF ~Exists(folder, PdfName(base)) THEN PdfName(base)
  ELSE LET free == { n \in 1..(Cardinality(DOMAIN folder) + 1) :
                       ~Exists(folder, CounterName(base, n)) }
       IN CounterName(base, CHOOSE n \in free : \A m \in free : n <= m)

\* C6: the destination is base.pdf when it is free, otherwise base-N.pdf
\* for the smallest N >= 1 such that base-N.pdf does not exist.
C6_FirstFreeName ==
  pc = "utime" =>
    /\ Exists(processed, new_filename)
    /\ new_filename = FirstFree(Remove(processed, new_filename), base_filename)

C6_Witness ==
  /\ pc = "utime"
  /\ new_filename = CounterName(base_filename, 3)
  /\ \A n \in {1, 2} : Exists(processed, CounterName(base_filename, n))
  /\ Exists(processed, PdfName(base_filename))

\* C7: filing never overwrites: a file of the processed folder stays there
\* with its content, and a document is filed under a name that was free,
\* so two documents with one base name rest under two names.
C7_NeverOverwrites ==
  [][ /\ \A n \in DOMAIN processed :
           /\ n \in DOMAIN processed'
           /\ processed'[n].id = processed[n].id
           /\ processed'[n].kind = processed[n].kind
      /\ (pc = "probe" /\ pc' = "utime") =>
           /\ ~Exists(processed, new_filename)
           /\ DOMAIN processed' = DOMAIN processed \cup {new_filename}
           /\ processed'[new_filename].id = hist.id ]_vars

C7_Witness ==
  \E n \in DOMAIN processed :
    LET base == SubSeq(n, 1, Len(n) - 1)
    IN /\ n = PdfName(base)
       /\ processed[n].id = 1
       /\ Exists(processed, CounterName(base, 1))
       /\ processed[CounterName(base, 1)].id = 2

\* The shapes of the claim: doc_type absent, null, a string or a mapping
\* whose keys are missing or strings; tags absent, null, a list or a
\* mapping whose keys are missing or lists; any sender.
ShapeInClaim(metadata) ==
  /\ metadata.doc_type.k = "map" =>
       metadata.doc_type.en.k # "null" /\ metadata.doc_type.fr.k # "null"
  /\ metadata.tags.k = "map" =>
       metadata.tags.en.k # "null" /\ metadata.tags.fr.k # "null"

\* C8: the metadata preparation never raises on these shapes, and gives
\* the title 'Document' for an absent or null doc_type, no keyword for
\* absent or null tags and the author 'Unknown' for an absent or null
\* sender.
C8_NormalizationTotal ==
  (pc = "normalized" /\ ShapeInClaim(analysis_data)) =>
    /\ ~command.raised
    /\ analysis_data.doc_type.k \in {"absent", "null"} => command.title = StrDocument
    /\ analysis_data.tags.k \in {"absent", "null"} => command.keywords = <<>>
    /\ analysis_data.sender.k \in {"absent", "null"} =>
         /\ command.author = StrUnknown
         /\ command.subject = StrUnknown \o <<" ", "-", " ">> \o command.title

C8_Witness ==
  /\ pc = "normalized"
  /\ analysis_data.doc_type = Map(Absent, Str(StrRecu))
  /\ analysis_data.tags = Map(List(TagsEn), Absent)
  /\ analysis_data.sender = Null
  /\ ~command.raised
  /\ command.keywords = <<"billing", ", ", "q1">>

\* YYYY-MM-DD
IsYmdDate(s) ==
  /\ Len(s) = 10
  /\ \A i \in {1, 2, 3, 4, 6, 7, 9, 10} : s[i] \in Digits
  /\ s[5] = "-" /\ s[8] = "-"

\* YYYY-MM-DD_Sender_DocType[-N].pdf, the segments over [A-Za-z0-9_-]
WellNamed(n) ==
  /\ Len(n) >= 13
  /\ n[Len(n)] = ".pdf"
  /\ IsYmdDate(SubSeq(n, 1, 10))
  /\ n[11] = "_"
  /\ \E i \in 12..(Len(n) - 1) : n[i] = "_"
  /\ \A i \in 12..(Len(n) - 1) : n[i] \in SafeAscii

\* C9: every file the pipeline places in the processed folder is named
\* YYYY-MM-DD_Sender_DocType[-N].pdf with a YYYY-MM-DD date and segments
\* over [A-Za-z0-9_-].
C9_FiledNamesWellFormed ==
  \A n \in DOMAIN processed : processed[n].id > 0 => WellNamed(n)

HasSuffix(s, suffix) ==
  Len(s) >= Len(suffix)
    /\ SubSeq(s, Len(s) - Len(suffix) + 1, Len(s)) = suffix

\* The variant of doc_type the language mode asks for.
VariantForMode(doc_type, mode) ==
  IF doc_type.k = "map"
  THEN (IF mode = "english" THEN doc_type.en ELSE doc_type.fr)
  ELSE Str(doc_type.s)

\* C10: the document-type segment of the file name is the 'en' variant of
\* a mapping doc_type in english mode and the 'fr' variant in any other
\* mode, the plain string otherwise; for an absent or null doc_type the
\* title and the segment are 'Document'; the example of the specification
\* gives the base name 2024-03-01_Acme_Corp_Invoice.
C10_DocTypeByLanguage ==
  pc \in {"probe", "utime"} =>
    LET doc_type == analysis_data.doc_type
        variant == VariantForMode(doc_type, lang)
    IN /\ (doc_type.k \in {"str", "map"} /\ variant.k = "str" /\ variant.s # <<>>)
            => HasSuffix(base_filename, <<"_">> \o Sanitize(variant.s))
       /\ doc_type.k \in {"absent", "null"} =>
            /\ command.title = StrDocument
            /\ HasSuffix(base_filename, <<"_">> \o StrDocument)
       /\ (lang = "english" /\ analysis_data.doc_type = Plain(Str(StrInvoice))
             /\ analysis_data.sender = Str(StrAcmeCorp)
             /\ analysis_data.doc_date = Str(DateIso))
            => base_filename = ExampleBase

C10_Witness ==
  /\ pc = "utime" /\ lang = "both"
  /\ analysis_data.doc_type = Map(Str(StrInvoice), Str(StrRecu))
  /\ HasSuffix(new_filename, <<"_">> \o StrRecu \o <<".pdf">>)
  /\ Exists(processed, new_filename)

\* The calendar dates a text names when it is read as year-month-day: a
\* year of four digits, a month and a day of one or two, hyphens between
\* them, and the day exists in the month.
CalendarDates(s) ==
  LET cuts == { p \in (1..Len(s)) \X (1..Len(s)) :
                  /\ p[1] = 5 /\ p[2] - p[1] \in {2, 3} /\ Len(s) - p[2] \in {1, 2}
                  /\ s[p[1]] = "-" /\ s[p[2]] = "-"
                  /\ IsDigits(SubSeq(s, 1, 4))
                  /\ IsDigits(SubSeq(s, p[1] + 1, p[2] - 1))
                  /\ IsDigits(SubSeq(s, p[2] + 1, Len(s))) }
      read == { << DigitsValue(SubSeq(s, 1, 4)),
                   DigitsValue(SubSeq(s, p[1] + 1, p[2] - 1)),
                   DigitsValue(SubSeq(s, p[2] + 1, Len(s))) >> : p \in cuts }
  IN { d \in read : d[1] >= 1 /\ d[2] \in 1..12 /\ d[3] \in 1..DaysInMonth(d[1], d[2]) }

\* The dates the analyser's raw doc_date names: none when it is missing,
\* null or empty, or is no year-month-day date.
ContentDates ==
  IF analysis_data.doc_date.k = "str" THEN CalendarDates(analysis_data.doc_date.s)
  ELSE {}

\* The modification time of a file of the processed folder before a step.
MtimeBefore(n) == IF n \in DOMAIN processed THEN processed[n].mtime ELSE <<>>

\* A modification time changes only in the timestamp step, only on the
\* file that step has at its final path for the document in hand, and
\* only to the date the raw doc_date names.
TimestampOnlyFromContent ==
  /\ \A n \in DOMAIN processed' :
       processed'[n].mtime # MtimeBefore(n) =>
         /\ pc = "utime" /\ n = new_filename
         /\ Exists(processed, n) /\ processed[n].id = hist.id
         /\ hist.filed = n /\ InStages("move")
         /\ processed'[n].mtime \in ContentDates
  /\ \A n \in DOMAIN working' : working'[n].mtime = <<>>
  /\ \A n \in DOMAIN errorf' : errorf'[n].mtime = <<>>

\* Without a date from the analyser the name starts with today's date.
TodayInName ==
  (pc = "resolve" /\ pc' = "probe" /\ ~Truthy(analysis_data.doc_date)) =>
    \E today \in ClockDates :
      SubSeq(base_filename', 1, Len(today) + 1) = today \o <<"_">>

C12_FailureAfterStagingQuarantines ==
  (pc = "idle" /\ hist.id > 0 /\ hist.failed # "") => Quarantined

\* The place of a step in the order of the pipeline; remote OCR belongs to
\* text extraction, and the choice of the name to the rename and move.
StageRank(stage) ==
  CASE stage = "stage" -> 1
    [] stage = "extract" -> 2
    [] stage = "ocr" -> 3
    [] stage = "analyze" -> 4
    [] stage = "rebuild" -> 5
    [] stage = "resolve" -> 6
    [] stage = "move" -> 7
    [] stage = "utime" -> 8

\* The step that must have come just before a step.
ComesAfter(stage, previous) ==
  \/ StageRank(previous) = StageRank(stage) - 1
  \/ stage = "analyze" /\ previous = "extract"

\* C13: the stages run in the order stage, extract text, analyze, rebuild,
\* rename and move, set timestamp: each starts only after the one before
\* it has completed, none runs twice, and once a stage has raised no
\* further stage runs for the document.
C13_StrictStageOrder ==
  LET st == hist.stages
      n == Len(st)
  IN /\ n > 0 => st[1] = "stage"
     /\ \A i \in 2..n : ComesAfter(st[i], st[i - 1])
     /\ \A i, j \in 1..n : i < j => StageRank(st[i]) < StageRank(st[j])
     /\ hist.failed # "" =>
          /\ pc \in {"except", "idle"}
          /\ n > 0
          /\ IF hist.failed = "check" THEN st[n] \in {"extract", "ocr"}
                                      ELSE st[n] = hist.failed
     /\ hist.failed = "" =>
          /\ pc = "extract" => st[n] = "stage"
          /\ pc = "ocr" => st[n] = "extract"
          /\ pc \in {"check", "analyze"} => st[n] \in {"extract", "ocr"}
          /\ pc = "rebuild" => st[n] = "analyze"
          /\ pc = "resolve" => st[n] = "rebuild"
          /\ pc = "probe" => st[n] = "resolve"
          /\ pc = "utime" => st[n] = "move"

C13_Witness ==
  /\ pc = "idle" /\ hist.failed = ""
  /\ hist.stages = <<"stage", "extract", "ocr", "analyze", "rebuild",
                     "resolve", "move", "utime">>

\* The analyser gave a doc_date and it is no year-month-day date.
DateGivenUnparsed == Truthy(analysis_data.doc_date) /\ ContentDates = {}

\* C14: a doc_date that is present and does not parse is not fatal: the
\* rename, move and timestamp steps do not raise because of it, and the
\* document is filed in the processed folder with the modification time
\* the filesystem gave it, and is not in the error folder.
C14_UnparsedDateNonFatal ==
  DateGivenUnparsed =>
    /\ hist.failed \notin {"move", "utime"}
    /\ pc = "utime" =>
         /\ Exists(processed, new_filename)
         /\ processed[new_filename].id = hist.id
         /\ processed[new_filename].mtime = <<>>
         /\ \A n \in DOMAIN errorf : errorf[n].id # hist.id

\* C15: after a successful rebuild the working directory holds, of the
\* document's files, the rebuilt PDF alone, under the path and name the
\* staged file had: no sidecar <name>.txt and no processed_<name> is left;
\* and no sidecar is ever in the processed folder.
C15_RebuildLeavesOnlyRebuiltPdf ==
  /\ pc \in {"resolve", "probe"} =>
       /\ filename = hist.name
       /\ Exists(working, filename)
       /\ working[filename] = File(hist.id, "rebuilt")
       /\ ~Exists(working, SidecarName(filename))
       /\ ~Exists(working, OutputName(filename))
       /\ \A n \in DOMAIN working \ {filename} : working[n].id # hist.id
  /\ \A n \in DOMAIN processed :
       /\ processed[n].kind # "sidecar"
       /\ n[Len(n)] # ".txt"

C15_Witness ==
  /\ pc = "resolve" /\ InStages("rebuild") /\ hist.failed = ""
  /\ DOMAIN working = {filename}
  /\ working[filename].kind = "rebuilt"
  /\ filename = <<"b", ".PDF">>

\* The rebuilder was run for the document in hand and exited non-zero: the
\* rebuild raised and the metadata preparation before it did not.
RebuilderFailed ==
  hist.failed = "rebuild" /\ ~PrepareMetadata(analysis_data).raised

\* C16: when the rebuilder exits non-zero nothing has been deleted or
\* replaced: the original working file and the sidecar are at their paths
\* when the failure is handled, and the handler then moves the working
\* file, as it was dropped, to the error folder.
C16_RebuilderFailureKeepsFiles ==
  /\ (pc = "except" /\ RebuilderFailed) =>
       /\ Exists(working, filename)
       /\ working[filename] = File(hist.id, "pdf")
       /\ Exists(working, SidecarName(filename))
       /\ working[SidecarName(filename)] = File(hist.id, "sidecar")
       /\ \A n \in DOMAIN processed : processed[n].id # hist.id
  /\ (pc = "idle" /\ hist.failed = "rebuild") =>
       /\ Quarantined
       /\ errorf[hist.name] = File(hist.id, "pdf")

C16_Witness ==
  /\ pc = "idle" /\ hist.failed = "rebuild" /\ Quarantined
  /\ errorf[hist.name].kind = "pdf"
  /\ Exists(working, SidecarName(hist.name))
  /\ working[SidecarName(hist.name)].id = hist.id

\* C17: when the move from the inbox to the working directory fails, the
\* failure moves nothing: the working directory, the error folder and the
\* processed folder stay as they are until the next event is taken, and
\* no further stage runs for the event.
C17_StagingFailureRelocatesNothing ==
  [][ /\ (pc = "stage" /\ pc' = "except") =>
           /\ hist'.failed = "stage" /\ hist'.stages = <<"stage">>
           /\ ~Exists(inbox, filename) /\ ~Exists(working, filename)
           /\ UNCHANGED <<working, processed, errorf>>
      /\ hist.failed = "stage" =>
           /\ UNCHANGED <<working, processed, errorf>>
           /\ hist' = hist => pc' \in {"except", "idle"}
           /\ hist' # hist => (pc = "idle" /\ pc' = "stage") ]_vars

C17_Witness ==
  /\ pc = "idle" /\ hist.failed = "stage" /\ hist.stages = <<"stage">>
  /\ hist.name = <<"a", ".pdf">>
  /\ working = EmptyFolder /\ errorf = EmptyFolder
  /\ \A n \in DOMAIN processed : processed[n].id = 0

\* The documents in a folder: its files other than sidecar texts.
Documents(folder) == { n \in DOMAIN folder : folder[n].kind # "sidecar" }

\* The path of a creation event is a file whose name ends in .pdf, in
\* either case.
IsPdfEvent(event) ==
  /\ ~event.is_directory
  /\ event.name[Len(event.name)] \in {".pdf", ".PDF"}

\* No document is in the working directory between two runs, and during a
\* run the only one there is the document in hand.
OneInFlight ==
  /\ pc \in {"idle", "stage"} => Documents(working) = {}
  /\ Documents(working) \subseteq {filename}
  /\ \A n \in Documents(working) : working[n].id = hist.id

\* C18: documents are processed one at a time in the order their events
\* were detected: a run starts only when the run before it has ended, on
\* the oldest event not yet taken; at most one document is in flight in
\* the working directory; and only events of files ending in .pdf, in
\* either case, start a run.
C18_OneAtATimeInOrder ==
  [][ /\ OneInFlight /\ OneInFlight'
      /\ events' # events =>
           \/ events # <<>> /\ events' = Tail(events) /\ pc = "idle"
           \/ Len(events') = Len(events) + 1
                /\ SubSeq(events', 1, Len(events)) = events
      /\ (pc' = "stage" /\ pc # "stage") =>
           /\ pc = "idle" /\ events # <<>>
           /\ events' = Tail(events)
           /\ IsPdfEvent(Head(events))
           /\ filename' = Head(events).name
           /\ hist'.stages = <<>> /\ hist'.failed = ""
      /\ (pc = "idle" /\ events # <<>> /\ events' = Tail(events)) =>
           (pc' = "stage" <=> IsPdfEvent(Head(events)))
      /\ (pc # "idle" /\ pc' # "idle") =>
           /\ filename' = filename
           /\ hist'.name = hist.name ]_vars

C18_Witness ==
  /\ pc = "analyze" /\ hist.id = 2 /\ hist.name = <<"b", ".PDF">>
  /\ DOMAIN working = {filename}
  /\ \E n \in DOMAIN processed : processed[n].id = 1

\* The names under which the document in hand rests in a folder.
RestsIn(folder) == { n \in DOMAIN folder : folder[n].id = hist.id }

\* The document in hand is in the processed folder or in the error
\* folder, under one name in all, and not at its working path.
AtOneTerminalLocation ==
  /\ Cardinality(RestsIn(processed)) + Cardinality(RestsIn(errorf)) = 1
  /\ ~Exists(working, hist.name)
  /\ RestsIn(working) \cap Documents(working) = {}

\* The place of the observer thread in a run, in the order of the code;
\* idle, the run having returned, is last.
PcRank(at) ==
  CASE at = "stage" -> 1
    [] at = "extract" -> 2
    [] at = "ocr" -> 3
    [] at = "check" -> 4
    [] at = "analyze" -> 5
    [] at = "rebuild" -> 6
    [] at = "resolve" -> 7
    [] at = "probe" -> 8
    [] at = "utime" -> 9
    [] at = "except" -> 10
    [] at = "idle" -> 11

\* C19: every document that was staged comes to rest: when its run
\* returns it is in the processed folder or in the error folder, never in
\* both and not at its working path; and every run returns when the
\* calls it makes do: until the move the file each stage works on is at
\* its working path, every step moves the run forward in the code, and
\* the loop that probes for a free name makes at most as many turns as
\* the processed folder has files.
C19_StagedReachesOneTerminal ==
  [][ /\ (pc' = "idle" /\ hist'.id > 0) => AtOneTerminalLocation'
      /\ (pc' \in {"extract", "ocr", "check", "analyze", "rebuild", "resolve", "probe"}) =>
           Exists(working', filename')
      /\ (pc # "idle" /\ <<pc, counter>>' # <<pc, counter>>) =>
           \/ PcRank(pc') > PcRank(pc)
           \/ /\ pc = "probe" /\ pc' = "probe"
              /\ counter' = counter + 1
              /\ counter <= Cardinality(DOMAIN processed)
              /\ UNCHANGED processed ]_vars

C19_Witness ==
  /\ pc = "idle" /\ hist.id = 2 /\ AtOneTerminalLocation
  /\ hist.filed = CounterName(ExampleBase, 3)
  /\ RestsIn(processed) = {hist.filed}

\* C20: quarantine loses no earlier document: a document of the error
\* folder stays there under its name, whatever is quarantined later, a
\* later failing document of the same original name included.
C20_QuarantineKeepsEarlier ==
  [][ \A n \in DOMAIN errorf :
        /\ n \in DOMAIN errorf'
        /\ errorf'[n].id = errorf[n].id ]_vars

====
